---- MODULE Spec2Model ----
(***************************************************************************)
(* responsive-ajax (src/ajax.js): request construction from JSON data,     *)
(* query data and HTML forms, and classification of the transport's        *)
(* terminal events into a resolved or rejected Deferred.                    *)
(*                                                                         *)
(* Strings are sequences of one-character strings, so that the encoders    *)
(* (encodeURIComponent, toUpperCase, JSON.stringify, JSON.parse) are       *)
(* computed character by character.  JavaScript values are records         *)
(* [t |-> type tag, v |-> payload].                                        *)
(*                                                                         *)
(* The model follows one API call: the call, the request it dispatches and *)
(* the terminal events delivered to that request.  Calls share no state    *)
(* (sendRequest makes a fresh Deferred and XMLHttpRequest per call).       *)
(***************************************************************************)
EXTENDS Integers, Sequences, FiniteSets

----------------------------------------------------------------------------
(* Bounds of the model *)

\* largest number of controls in a form
MaxControls == 2

\* largest number of terminal events delivered to one request
MaxEvents == 2

----------------------------------------------------------------------------
(* JavaScript values *)

Undefined == [t |-> "undefined", v |-> <<>>]
Null == [t |-> "null", v |-> <<>>]
Str(s) == [t |-> "string", v |-> s]
Num(digits) == [t |-> "number", v |-> digits]
Bool(b) == [t |-> "boolean", v |-> b]
Arr(elems) == [t |-> "array", v |-> elems]
\* an object is its own enumerable properties in insertion order: <<key, value>>
Obj(members) == [t |-> "object", v |-> members]

\* ToBoolean, as used by if (headers), if (type), if (entity), a || b, a && b
Truthy(x) ==
    CASE x.t \in {"undefined", "null"} -> FALSE
      [] x.t = "string" -> x.v # <<>>
      [] x.t = "number" -> x.v # <<"0">>
      [] x.t = "boolean" -> x.v = <<"t", "r", "u", "e">>
      [] OTHER -> TRUE

\* String(x) for the scalars a data bag holds
StringOf(x) ==
    CASE x.t = "string" -> x.v
      [] x.t = "number" -> x.v
      [] x.t = "boolean" -> x.v
      [] x.t = "null" -> <<"n", "u", "l", "l">>
      [] OTHER -> <<"u", "n", "d", "e", "f", "i", "n", "e", "d">>

RECURSIVE Concat(_)
\* the concatenation of a sequence of strings
Concat(ss) == IF ss = <<>> THEN <<>> ELSE Head(ss) \o Concat(Tail(ss))

RECURSIVE Join(_, _)
\* Array.prototype.join
Join(ss, sep) ==
    IF ss = <<>> THEN <<>>
    ELSE IF Len(ss) = 1 THEN Head(ss)
    ELSE Head(ss) \o sep \o Join(Tail(ss), sep)

----------------------------------------------------------------------------
(* String.prototype.toUpperCase *)

LowerCase == <<"a", "b", "c", "d", "e", "f", "g", "h", "i", "j", "k", "l", "m",
               "n", "o", "p", "q", "r", "s", "t", "u", "v", "w", "x", "y", "z">>
UpperCase == <<"A", "B", "C", "D", "E", "F", "G", "H", "I", "J", "K", "L", "M",
               "N", "O", "P", "Q", "R", "S", "T", "U", "V", "W", "X", "Y", "Z">>

UpperChar(c) ==
    IF \E i \in 1..Len(LowerCase) : LowerCase[i] = c
    THEN UpperCase[CHOOSE i \in 1..Len(LowerCase) : LowerCase[i] = c]
    ELSE c

ToUpperCase(s) == [i \in 1..Len(s) |-> UpperChar(s[i])]

----------------------------------------------------------------------------
(* encodeURIComponent, on ASCII *)

Digits == {"0", "1", "2", "3", "4", "5", "6", "7", "8", "9"}

Letters == {LowerCase[i] : i \in 1..Len(LowerCase)}
               \cup {UpperCase[i] : i \in 1..Len(UpperCase)}

\* the characters encodeURIComponent leaves alone
Unreserved == Letters \cup Digits \cup {"-", "_", ".", "!", "~", "*", "'", "(", ")"}

\* the percent-escape of the other ASCII characters the model's strings use
PercentCode(c) ==
    CASE c = " " -> <<"%", "2", "0">>
      [] c = "\"" -> <<"%", "2", "2">>
      [] c = "%" -> <<"%", "2", "5">>
      [] c = "&" -> <<"%", "2", "6">>
      [] c = "+" -> <<"%", "2", "B">>
      [] c = "," -> <<"%", "2", "C">>
      [] c = "/" -> <<"%", "2", "F">>
      [] c = ":" -> <<"%", "3", "A">>
      [] c = "=" -> <<"%", "3", "D">>
      [] c = "?" -> <<"%", "3", "F">>
      [] c = "[" -> <<"%", "5", "B">>
      [] c = "]" -> <<"%", "5", "D">>
      [] c = "{" -> <<"%", "7", "B">>
      [] c = "}" -> <<"%", "7", "D">>

EncChar(c) == IF c \in Unreserved THEN <<c>> ELSE PercentCode(c)

enc(s) == Concat([i \in 1..Len(s) |-> EncChar(s[i])])

----------------------------------------------------------------------------
(* stringifyQuery *)

\* the decimal text of a small index
IndexText(n) ==
    LET d == <<"0", "1", "2", "3", "4", "5", "6", "7", "8", "9">>
    IN IF n < 10 THEN <<d[n + 1]>> ELSE <<d[(n \div 10) + 1], d[(n % 10) + 1]>>

\* for (k in object) if (object.hasOwnProperty(k)): the <<key, value>> pairs
OwnProps(object) ==
    CASE object.t = "object" -> object.v
      [] object.t = "array" ->
            [i \in 1..Len(object.v) |-> <<IndexText(i - 1), object.v[i]>>]
      [] OTHER -> <<>>

\* the pairs one property contributes: one per element of an array value
QueryPairs(k, val) ==
    IF val.t = "array"
    THEN [i \in 1..Len(val.v) |-> enc(k) \o <<"=">> \o enc(StringOf(val.v[i]))]
    ELSE << enc(k) \o <<"=">> \o enc(StringOf(val)) >>

stringifyQuery(object) ==
    LET props == OwnProps(object)
        qs == Concat([i \in 1..Len(props) |-> QueryPairs(props[i][1], props[i][2])])
    IN Join(qs, <<"&">>)

----------------------------------------------------------------------------
(* JSON.stringify *)

\* a string literal: the quote and the backslash are escaped
QuoteChar(c) == IF c \in {"\"", "\\"} THEN <<"\\", c>> ELSE <<c>>

Quote(s) == <<"\"">> \o Concat([i \in 1..Len(s) |-> QuoteChar(s[i])]) \o <<"\"">>

RECURSIVE JSONStringify(_)
JSONStringify(x) ==
    CASE x.t = "string" -> Quote(x.v)
      [] x.t \in {"number", "boolean"} -> x.v
      [] x.t = "array" ->
            <<"[">>
            \o Join([i \in 1..Len(x.v) |->
                        IF x.v[i].t = "undefined" THEN StringOf(Null)
                        ELSE JSONStringify(x.v[i])], <<",">>)
            \o <<"]">>
      [] x.t = "object" ->
            LET kept == SelectSeq(x.v, LAMBDA m : m[2].t # "undefined")
            IN <<"{">>
               \o Join([i \in 1..Len(kept) |->
                           Quote(kept[i][1]) \o <<":">> \o JSONStringify(kept[i][2])],
                       <<",">>)
               \o <<"}">>
      [] OTHER -> StringOf(Null)

----------------------------------------------------------------------------
(* JSON.parse: null, true, false, unsigned integers, strings with the \" and *)
(* \\ escapes, arrays and objects, with spaces between tokens.  A result is  *)
(* [ok, val, pos]: pos is the index after the value.                         *)

ParseFail == [ok |-> FALSE, val |-> Undefined, pos |-> 0]

RECURSIVE SkipSpace(_, _)
SkipSpace(s, i) == IF i <= Len(s) /\ s[i] = " " THEN SkipSpace(s, i + 1) ELSE i

\* whether word w stands in s at index i
HasWord(s, i, w) ==
    /\ i + Len(w) - 1 <= Len(s)
    /\ \A k \in 1..Len(w) : s[i + k - 1] = w[k]

RECURSIVE ParseDigits(_, _)
\* the index after the run of digits starting at i
ParseDigits(s, i) ==
    IF i <= Len(s) /\ s[i] \in Digits THEN ParseDigits(s, i + 1) ELSE i

ParseNumber(s, i) ==
    LET j == ParseDigits(s, i)
    IN IF j = i \/ (s[i] = "0" /\ j > i + 1) THEN ParseFail
       ELSE [ok |-> TRUE, val |-> Num(SubSeq(s, i, j - 1)), pos |-> j]

RECURSIVE ParseChars(_, _, _)
\* the body of a string literal whose opening quote precedes index i
ParseChars(s, i, acc) ==
    IF i > Len(s) THEN ParseFail
    ELSE IF s[i] = "\"" THEN [ok |-> TRUE, val |-> Str(acc), pos |-> i + 1]
    ELSE IF s[i] = "\\"
         THEN IF i + 1 <= Len(s) /\ s[i + 1] \in {"\"", "\\"}
              THEN ParseChars(s, i + 2, Append(acc, s[i + 1]))
              ELSE ParseFail
    ELSE ParseChars(s, i + 1, Append(acc, s[i]))

RECURSIVE ParseValue(_, _), ParseElements(_, _, _), ParseMembers(_, _, _)

ParseValue(s, i0) ==
    LET i == SkipSpace(s, i0)
    IN IF i > Len(s) THEN ParseFail
       ELSE IF HasWord(s, i, <<"n", "u", "l", "l">>)
            THEN [ok |-> TRUE, val |-> Null, pos |-> i + 4]
       ELSE IF HasWord(s, i, <<"t", "r", "u", "e">>)
            THEN [ok |-> TRUE, val |-> Bool(<<"t", "r", "u", "e">>), pos |-> i + 4]
       ELSE IF HasWord(s, i, <<"f", "a", "l", "s", "e">>)
            THEN [ok |-> TRUE, val |-> Bool(<<"f", "a", "l", "s", "e">>), pos |-> i + 5]
       ELSE IF s[i] \in Digits THEN ParseNumber(s, i)
       ELSE IF s[i] = "\"" THEN ParseChars(s, i + 1, <<>>)
       ELSE IF s[i] = "["
            THEN LET j == SkipSpace(s, i + 1)
                 IN IF j <= Len(s) /\ s[j] = "]"
                    THEN [ok |-> TRUE, val |-> Arr(<<>>), pos |-> j + 1]
                    ELSE ParseElements(s, j, <<>>)
       ELSE IF s[i] = "{"
            THEN LET j == SkipSpace(s, i + 1)
                 IN IF j <= Len(s) /\ s[j] = "}"
                    THEN [ok |-> TRUE, val |-> Obj(<<>>), pos |-> j + 1]
                    ELSE ParseMembers(s, j, <<>>)
       ELSE ParseFail

\* the elements of an array, then its closing bracket
ParseElements(s, i, acc) ==
    LET e == ParseValue(s, i)
        j == SkipSpace(s, e.pos)
    IN IF ~e.ok \/ j > Len(s) THEN ParseFail
       ELSE IF s[j] = "]" THEN [ok |-> TRUE, val |-> Arr(Append(acc, e.val)), pos |-> j + 1]
       ELSE IF s[j] = "," THEN ParseElements(s, j + 1, Append(acc, e.val))
       ELSE ParseFail

\* the members of an object, then its closing brace
ParseMembers(s, i0, acc) ==
    LET i == SkipSpace(s, i0)
        k == IF i <= Len(s) /\ s[i] = "\"" THEN ParseChars(s, i + 1, <<>>) ELSE ParseFail
        c == SkipSpace(s, k.pos)
        e == IF k.ok /\ c <= Len(s) /\ s[c] = ":" THEN ParseValue(s, c + 1) ELSE ParseFail
        j == SkipSpace(s, e.pos)
        members == Append(acc, <<k.val.v, e.val>>)
    IN IF ~e.ok \/ j > Len(s) THEN ParseFail
       ELSE IF s[j] = "}" THEN [ok |-> TRUE, val |-> Obj(members), pos |-> j + 1]
       ELSE IF s[j] = "," THEN ParseMembers(s, j + 1, members)
       ELSE ParseFail

\* JSON.parse(text): ok is FALSE where JSON.parse throws a SyntaxError
JSONParse(text) ==
    LET r == ParseValue(text, 1)
    IN IF r.ok /\ SkipSpace(text, r.pos) > Len(text)
       THEN [ok |-> TRUE, val |-> r.val]
       ELSE [ok |-> FALSE, val |-> Undefined]

----------------------------------------------------------------------------
(* String literals of the source *)

S_Accept == <<"A", "c", "c", "e", "p", "t">>
S_ContentType == <<"C", "o", "n", "t", "e", "n", "t", "-", "T", "y", "p", "e">>
S_ApplicationJson == <<"a", "p", "p", "l", "i", "c", "a", "t", "i", "o", "n", "/", "j", "s", "o", "n">>
S_Multipart == <<"m", "u", "l", "t", "i", "p", "a", "r", "t", "/", "f", "o", "r", "m", "-", "d", "a", "t", "a">>
S_UrlEncoded == <<"a", "p", "p", "l", "i", "c", "a", "t", "i", "o", "n", "/", "x", "-", "w", "w", "w", "-", "f", "o", "r", "m", "-", "u", "r", "l", "e", "n", "c", "o", "d", "e", "d">>
S_TextPlain == <<"t", "e", "x", "t", "/", "p", "l", "a", "i", "n">>
S_POST == <<"P", "O", "S", "T">>
S_PUT == <<"P", "U", "T">>
S_DELETE == <<"D", "E", "L", "E", "T", "E">>
S_GET == <<"G", "E", "T">>
S_method == <<"_", "m", "e", "t", "h", "o", "d">>
S_parseerror == <<"p", "a", "r", "s", "e", "e", "r", "r", "o", "r">>
S_timeout == <<"t", "i", "m", "e", "o", "u", "t">>
S_abort == <<"a", "b", "o", "r", "t">>

\* typeof x
TypeOf(x) ==
    CASE x.t \in {"object", "array", "null", "element", "formdata"} -> "object"
      [] OTHER -> x.t

----------------------------------------------------------------------------
(* The Deferred of tiny-deferred: created unsettled, settled once.  A       *)
(* resolve or reject of a settled Deferred changes nothing.                 *)

NewDeferred == [state |-> "pending", args |-> <<>>]

Resolve(d, args) ==
    IF d.state = "pending" THEN [state |-> "resolved", args |-> args] ELSE d

Reject(d, args) ==
    IF d.state = "pending" THEN [state |-> "rejected", args |-> args] ELSE d

----------------------------------------------------------------------------
(* makeRequest: the four listeners.  resp is the request's status and       *)
(* responseText when the event fires; the result is the Deferred after it.  *)

\* LoadListener without its final def.resolve: a success settles nothing
LoadListener_NoResolve(d, resp) ==
    LET status == IF resp.status = 1223 THEN 204 ELSE resp.status
        parsed == JSONParse(resp.text)
        responseData == IF resp.text # <<>> THEN parsed.val ELSE Null
    IN IF resp.text # <<>> /\ ~parsed.ok
       THEN Reject(d, <<status, Null, Str(S_parseerror)>>)
       ELSE IF status >= 400
            THEN Reject(d, <<status, responseData>>)
            ELSE d

\* LoadListener testing status > 400, and the status before the body
LoadListener_Above400(d, resp) ==
    LET status == IF resp.status = 1223 THEN 204 ELSE resp.status
        parsed == JSONParse(resp.text)
        responseData == IF resp.text # <<>> /\ parsed.ok THEN parsed.val ELSE Null
    IN IF status > 400
       THEN Reject(d, <<status, responseData>>)
       ELSE IF resp.text # <<>> /\ ~parsed.ok
            THEN Reject(d, <<status, Null, Str(S_parseerror)>>)
            ELSE Resolve(d, <<status, responseData>>)

LoadListener(d, resp) ==
    LET status == IF resp.status = 1223 THEN 204 ELSE resp.status
        parsed == JSONParse(resp.text)
        responseData == IF resp.text # <<>> THEN parsed.val ELSE Null
    IN IF resp.text # <<>> /\ ~parsed.ok
       THEN Reject(d, <<status, Null, Str(S_parseerror)>>)
       ELSE IF status >= 400
            THEN Reject(d, <<status, responseData>>)
            ELSE Resolve(d, <<status, responseData>>)

ErrorListener(d, resp) == Reject(d, <<resp.status, Null>>)

TimeoutListener(d, resp) == Reject(d, <<resp.status, Null, Str(S_timeout)>>)

AbortListener(d, resp) == Reject(d, <<resp.status, Null, Str(S_abort)>>)

----------------------------------------------------------------------------
(* sendRequest: the XMLHttpRequest after open, setRequestHeader and send.   *)
(* headers is the sequence of setRequestHeader calls, <<name, value>>.      *)

NoRequest ==
    [opened |-> FALSE, method |-> <<>>, path |-> <<>>, headers |-> <<>>,
     sent |-> FALSE, body |-> Undefined]

\* for (header in headers) req.setRequestHeader(header, headers[header])
HeaderCalls(headers) ==
    LET props == OwnProps(headers)
    IN [i \in 1..Len(props) |-> <<props[i][1], StringOf(props[i][2])>>]

sendRequest(method, path, headers, entity, type) ==
    [opened |-> TRUE,
     method |-> method,
     path |-> path,
     headers |-> << <<S_Accept, S_ApplicationJson>> >>
                 \o (IF Truthy(headers) THEN HeaderCalls(headers) ELSE <<>>)
                 \o (IF Truthy(type) THEN << <<S_ContentType, StringOf(type)>> >> ELSE <<>>),
     sent |-> TRUE,
     body |-> IF Truthy(entity) THEN entity ELSE Undefined]

\* what a call of the public API comes to: its completion and the request it sent
Returned(request) == [ret |-> "Deferred", req |-> request]
ReturnedValue(v) == [ret |-> v, req |-> NoRequest]
Thrown(error) == [ret |-> error, req |-> NoRequest]

----------------------------------------------------------------------------
(* sendJSON, send and the four data entry points *)

\* sendJSON testing typeof data alone: null is serialized too
sendJSON_TypeofOnly(method, path, data, headers) ==
    IF TypeOf(data) = "object"
    THEN sendRequest(method, path, headers, Str(JSONStringify(data)),
                     Str(S_ApplicationJson))
    ELSE sendRequest(method, path, headers, Undefined, Undefined)

sendJSON(method, path, data, headers) ==
    IF data.t # "null" /\ TypeOf(data) = "object"
    THEN sendRequest(method, path, headers, Str(JSONStringify(data)),
                     Str(S_ApplicationJson))
    ELSE sendRequest(method, path, headers, Undefined, Undefined)

send(method, path, data, headers) ==
    LET withQuery == IF data.t # "null" /\ TypeOf(data) = "object"
                     THEN path \o <<"?">> \o stringifyQuery(data)
                     ELSE path
    IN sendRequest(method, withQuery, headers, Undefined, Undefined)

putJSON(path, data, headers) == Returned(sendJSON(S_PUT, path, data, headers))

postJSON(path, data, headers) == Returned(sendJSON(S_POST, path, data, headers))

\* send is called with three arguments: headers lands in its data parameter
del(path, data, headers) == Returned(send(S_DELETE, path, headers, Undefined))

get(path, data, headers) == Returned(send(S_GET, path, headers, Undefined))

----------------------------------------------------------------------------
(* Forms.  A form is [action, method, enctype, elements]; a control is      *)
(* [name, type, value, options], options being the [value, selected]        *)
(* options of a select control.                                             *)

\* form.elements[name]: the controls of that name (an element, or a
\* RadioNodeList of several), undefined when there is none
NamedItem(form, name) ==
    LET named == SelectSeq(form.elements, LAMBDA e : e.name = name)
    IN IF named = <<>> THEN Undefined ELSE [t |-> "element", v |-> named]

\* x.toUpperCase(): only a string has the method; the call throws a
\* TypeError on any other defined value
CallToUpperCase(x) ==
    IF x.t = "string"
    THEN [error |-> "", val |-> Str(ToUpperCase(x.v))]
    ELSE [error |-> "TypeError", val |-> Undefined]

\* new FormData(form)
NewFormData(form) == [t |-> "formdata", v |-> form.elements]

sendMultipartForm(form, formDataDefined) ==
    LET item == NamedItem(form, S_method)
        upper == CallToUpperCase(item)
        \* (a && a.toUpperCase()) || 'POST'
        method == IF Truthy(item) /\ Truthy(upper.val) THEN upper.val.v ELSE S_POST
    IN IF Truthy(item) /\ upper.error # "" THEN Thrown(upper.error)
       ELSE IF ~formDataDefined THEN Thrown("ReferenceError")
       ELSE Returned(sendRequest(method, form.action, Null, NewFormData(form),
                                 Str(S_Multipart)))

\* the pairs of a select-multiple control: one per selected option, appended
\* with nothing between them
SelectedPairs(element) ==
    LET chosen == SelectSeq(element.options, LAMBDA o : o.selected)
    IN Concat([i \in 1..Len(chosen) |->
                  enc(element.name) \o <<"=">> \o enc(chosen[i].value)])

RECURSIVE FormLoop(_, _, _)
\* the loop over form.elements from index i with qs built so far: whether it
\* met a file control (and left to send multipart), and qs at its end
FormLoop(form, i, qs) ==
    IF i > Len(form.elements) THEN [file |-> FALSE, qs |-> qs]
    ELSE LET element == form.elements[i]
         IN IF element.type = "file" THEN [file |-> TRUE, qs |-> qs]
            ELSE IF element.type = "select-multiple"
                 THEN FormLoop(form, i + 1, qs \o SelectedPairs(element))
                 ELSE FormLoop(form, i + 1,
                               qs \o enc(element.name) \o <<"=">> \o enc(element.value))

sendForm(form, formDataDefined) ==
    LET loop == FormLoop(form, 1, <<>>)
        item == NamedItem(form, S_method)
        \* (form.elements._method || form.method).toUpperCase()
        upper == CallToUpperCase(IF Truthy(item) THEN item ELSE Str(form.method))
        method == upper.val.v
    IN IF form.enctype = S_Multipart THEN sendMultipartForm(form, formDataDefined)
       ELSE IF loop.file THEN sendMultipartForm(form, formDataDefined)
       ELSE IF upper.error # "" THEN Thrown(upper.error)
       ELSE IF method \in {S_POST, S_PUT}
            THEN Returned(sendRequest(method, form.action, Null, Str(loop.qs),
                                      Str(S_UrlEncoded)))
       ELSE IF method \in {S_DELETE, S_GET}
            THEN Returned(sendRequest(method, form.action \o <<"?">> \o loop.qs,
                                      Undefined, Undefined, Undefined))
       ELSE ReturnedValue("undefined")

canSendForm(form, formDataDefined) ==
    IF formDataDefined THEN ReturnedValue("true")
    ELSE IF form.enctype = S_Multipart THEN ReturnedValue("false")
    ELSE IF \E i \in 1..Len(form.elements) : form.elements[i].type = "file"
         THEN ReturnedValue("false")
    ELSE ReturnedValue("undefined")

----------------------------------------------------------------------------
(* The inputs the model draws *)

Paths == {<<"/", "i", "t", "e", "m", "s">>, <<"/", "u", "/", "1">>}

DataBags ==
    {Undefined, Null, Str(<<"a">>),
     Obj(<<>>),
     Obj(<< <<<<"n", "a", "m", "e">>, Str(<<"a">>)>> >>),
     Obj(<< <<<<"q">>, Str(<<"a", " ", "b">>)>>, <<<<"t", "a", "g">>, Arr(<<Str(<<"x">>), Num(<<"2">>)>>)>> >>),
     Arr(<<Str(<<"a">>)>>)}

HeaderBags ==
    {Undefined, Null,
     Obj(<< <<<<"X", "-", "T", "o", "k", "e", "n">>, Str(<<"t">>)>> >>),
     Obj(<< <<<<"C", "o", "n", "t", "e", "n", "t", "-", "T", "y", "p", "e">>, Str(<<"t", "e", "x", "t", "/", "p", "l", "a", "i", "n">>)>>, <<<<"X", "-", "I", "d">>, Num(<<"7">>)>> >>)}

NoOptions == <<>>

Controls ==
    {[name |-> <<"a">>, type |-> "text", value |-> <<"1">>, options |-> NoOptions],
     [name |-> <<"b", " ", "c">>, type |-> "hidden", value |-> <<"x", "&", "y">>, options |-> NoOptions],
     [name |-> S_method, type |-> "hidden", value |-> <<"D", "E", "L", "E", "T", "E">>, options |-> NoOptions],
     [name |-> S_method, type |-> "hidden", value |-> <<"p", "u", "t">>, options |-> NoOptions],
     [name |-> <<"f">>, type |-> "file", value |-> <<"x", ".", "t", "x", "t">>, options |-> NoOptions],
     [name |-> <<"s">>, type |-> "select-multiple", value |-> <<"v", "1">>,
      options |-> << [value |-> <<"v", "1">>, selected |-> TRUE],
                     [value |-> <<"v", "2">>, selected |-> FALSE],
                     [value |-> <<"v", " ", "3">>, selected |-> TRUE] >>]}

ControlLists == UNION {[1..n -> Controls] : n \in 0..MaxControls}

\* form.method and form.enctype reflect the attribute limited to known values
FormMethods == {<<"g", "e", "t">>, <<"p", "o", "s", "t">>, <<"d", "i", "a", "l", "o", "g">>}

FormEnctypes == {S_UrlEncoded, S_Multipart, S_TextPlain}

Forms ==
    {[action |-> <<"/", "f">>, method |-> m, enctype |-> e, elements |-> els] :
        m \in FormMethods, e \in FormEnctypes, els \in ControlLists}

NoForm == [action |-> <<>>, method |-> <<>>, enctype |-> <<>>, elements |-> <<>>]

Statuses == {0, 200, 204, 1223, 400, 500}

ResponseTexts ==
    {<<>>,
     <<"{", "\"", "e", "r", "r", "o", "r", "\"", ":", "\"", "x", "\"", "}">>,
     <<"{", "b", "a", "d">>,
     <<"n", "u", "l", "l">>,
     <<"[", "1", ",", " ", "\"", "o", "k", "\"", "]">>}

Responses == [status : Statuses, text : ResponseTexts]

----------------------------------------------------------------------------
(* State *)

VARIABLES
    formDataDefined,  \* typeof FormData !== 'undefined' in this environment
    call,             \* the API call made: [op, path, data, headers, form]
    ret,              \* how the call completed: "Deferred", "undefined",
                      \* "true", "false" or the name of the error thrown
    req,              \* the XMLHttpRequest the call opened and sent
    done,             \* whether the exchange has ended (status, responseText set)
    response,         \* req.status and req.responseText
    def,              \* the Deferred the call returned
    nEvents,          \* terminal events delivered to req
    firstEvent        \* the first of them: "load", "error", "timeout", "abort"

vars == <<formDataDefined, call, ret, req, done, response, def, nEvents, firstEvent>>

NoCall == [op |-> "none", path |-> <<>>, data |-> Undefined, headers |-> Undefined,
           form |-> NoForm]

Init ==
    /\ formDataDefined \in BOOLEAN
    /\ call = NoCall
    /\ ret = "none"
    /\ req = NoRequest
    /\ done = FALSE
    /\ response = [status |-> 0, text |-> <<>>]
    /\ def = NewDeferred
    /\ nEvents = 0
    /\ firstEvent = "none"

\* no call has been made yet
Idle == call.op = "none"

\* the call c completes with outcome out
Complete(c, out) ==
    /\ call' = c
    /\ ret' = out.ret
    /\ req' = out.req
    /\ UNCHANGED <<formDataDefined, done, response, def, nEvents, firstEvent>>

DataCall(op, path, data, headers) ==
    [op |-> op, path |-> path, data |-> data, headers |-> headers, form |-> NoForm]

FormCall(op, form) ==
    [op |-> op, path |-> <<>>, data |-> Undefined, headers |-> Undefined, form |-> form]

PutJSON ==
    /\ Idle
    /\ \E path \in Paths, data \in DataBags, headers \in HeaderBags :
           Complete(DataCall("putJSON", path, data, headers), putJSON(path, data, headers))

PostJSON ==
    /\ Idle
    /\ \E path \in Paths, data \in DataBags, headers \in HeaderBags :
           Complete(DataCall("postJSON", path, data, headers), postJSON(path, data, headers))

Del ==
    /\ Idle
    /\ \E path \in Paths, data \in DataBags, headers \in HeaderBags :
           Complete(DataCall("del", path, data, headers), del(path, data, headers))

Get ==
    /\ Idle
    /\ \E path \in Paths, data \in DataBags, headers \in HeaderBags :
           Complete(DataCall("get", path, data, headers), get(path, data, headers))

SendForm ==
    /\ Idle
    /\ \E form \in Forms :
           Complete(FormCall("sendForm", form), sendForm(form, formDataDefined))

CanSendForm ==
    /\ Idle
    /\ \E form \in Forms :
           Complete(FormCall("canSendForm", form), canSendForm(form, formDataDefined))

\* the transport ends the exchange: status and responseText are set
Finish ==
    /\ req.sent
    /\ ~done
    /\ done' = TRUE
    /\ \E resp \in Responses : response' = resp
    /\ UNCHANGED <<formDataDefined, call, ret, req, def, nEvents, firstEvent>>

\* the transport fires a terminal event; its listener settles the Deferred
Fire(kind, settled) ==
    /\ done
    /\ nEvents < MaxEvents
    /\ def' = settled
    /\ nEvents' = nEvents + 1
    /\ firstEvent' = IF nEvents = 0 THEN kind ELSE firstEvent
    /\ UNCHANGED <<formDataDefined, call, ret, req, done, response>>

Load == Fire("load", LoadListener(def, response))

Error == Fire("error", ErrorListener(def, response))

Timeout == Fire("timeout", TimeoutListener(def, response))

Abort == Fire("abort", AbortListener(def, response))

Next ==
    \/ PutJSON
    \/ PostJSON
    \/ Del
    \/ Get
    \/ SendForm
    \/ CanSendForm
    \/ Finish
    \/ Load
    \/ Error
    \/ Timeout
    \/ Abort

Spec == Init /\ [][Next]_vars

----------------------------------------------------------------------------
(* What the claims speak of *)

\* data is a non-null object
IsDataObject(x) == x.t \in {"object", "array"}

\* the setRequestHeader calls every request starts with
AcceptCall == <<S_Accept, S_ApplicationJson>>

\* the setRequestHeader calls the caller's headers ask for
CallerHeaderCalls(headers) ==
    IF headers.t = "object"
    THEN [i \in 1..Len(headers.v) |-> <<headers.v[i][1], StringOf(headers.v[i][2])>>]
    ELSE <<>>

\* the form has a control of that name
HasControl(form, name) == \E i \in 1..Len(form.elements) : form.elements[i].name = name

\* the value of the form's first control of that name
ControlValue(form, name) ==
    form.elements[CHOOSE i \in 1..Len(form.elements) :
                     /\ form.elements[i].name = name
                     /\ \A j \in 1..(i - 1) : form.elements[j].name # name].value

\* the form needs multipart: declared, or it holds a file control
NeedsMultipart(form) ==
    \/ form.enctype = S_Multipart
    \/ \E i \in 1..Len(form.elements) : form.elements[i].type = "file"

\* the effective method: the _method control's value if there is one, else
\* the declared method, in upper case
EffectiveMethod(form) ==
    IF HasControl(form, S_method)
    THEN ToUpperCase(ControlValue(form, S_method))
    ELSE ToUpperCase(form.method)

\* the URL-encoded name=value pairs of a control
ControlPairs(element) ==
    IF element.type = "select-multiple"
    THEN LET chosen == SelectSeq(element.options, LAMBDA o : o.selected)
         IN [i \in 1..Len(chosen) |-> enc(element.name) \o <<"=">> \o enc(chosen[i].value)]
    ELSE << enc(element.name) \o <<"=">> \o enc(element.value) >>

\* the pairs string of a form: its controls' pairs in document order, joined by &
PairsString(form) ==
    Join(Concat([i \in 1..Len(form.elements) |-> ControlPairs(form.elements[i])]), <<"&">>)

T_ErrorX == <<"{", "\"", "e", "r", "r", "o", "r", "\"", ":", "\"", "x", "\"", "}">>
T_Bad == <<"{", "b", "a", "d">>
T_NameA == <<"{", "\"", "n", "a", "m", "e", "\"", ":", "\"", "a", "\"", "}">>
V_NameA == Obj(<< <<<<"n", "a", "m", "e">>, Str(<<"a">>)>> >>)
V_ErrorX == Obj(<< <<<<"e", "r", "r", "o", "r">>, Str(<<"x">>)>> >>)

----------------------------------------------------------------------------
(* Claims *)

\* C1: get and del with a non-null object as data dispatch to
\* path + '?' + the query string of data, with no entity and with the
\* caller's headers applied; with any other data the path is sent unchanged.
C1_QueryInPath ==
    call.op \in {"get", "del"} =>
        /\ ret = "Deferred"
        /\ req.method = (IF call.op = "get" THEN S_GET ELSE S_DELETE)
        /\ req.path = (IF IsDataObject(call.data)
                       THEN call.path \o <<"?">> \o stringifyQuery(call.data)
                       ELSE call.path)
        /\ req.body = Undefined
        /\ req.headers = <<AcceptCall>> \o CallerHeaderCalls(call.headers)

\* C2: the Deferred of a request is settled exactly once: it is pending
\* until the first terminal event, that event resolves or rejects it, and no
\* later terminal event changes its state or its arguments.
C2_SettledOnce ==
    [][ /\ (nEvents' = 0 => def'.state = "pending")
        /\ (nEvents = 0 /\ nEvents' = 1 => def'.state \in {"resolved", "rejected"})
        /\ (def.state # "pending" => def' = def) ]_vars

\* C2's case: a second terminal event has been delivered to a settled request
C2_Witness == nEvents >= 2 /\ def.state # "pending"

\* C3: on a load event a non-empty body that is not JSON rejects with
\* (status, null, 'parseerror') whatever the status; otherwise the body is the
\* parsed JSON, null for an empty body, and the Deferred is rejected with
\* (status, body) when the normalized status is >= 400 and resolved with
\* (status, body) when it is not.
C3_LoadOutcome ==
    firstEvent = "load" =>
        LET status == IF response.status = 1223 THEN 204 ELSE response.status
            parsed == JSONParse(response.text)
        IN /\ (response.text # <<>> /\ ~parsed.ok) =>
                  def = [state |-> "rejected",
                         args |-> <<status, Null, Str(S_parseerror)>>]
           /\ (response.text # <<>> /\ parsed.ok) =>
                  def = [state |-> IF status >= 400 THEN "rejected" ELSE "resolved",
                         args |-> <<status, parsed.val>>]
           /\ response.text = <<>> =>
                  def = [state |-> IF status >= 400 THEN "rejected" ELSE "resolved",
                         args |-> <<status, Null>>]
           /\ response.text = T_Bad => def.state = "rejected" /\ Len(def.args) = 3
           /\ response = [status |-> 500, text |-> T_ErrorX] =>
                  def = [state |-> "rejected", args |-> <<500, V_ErrorX>>]
           /\ response = [status |-> 204, text |-> <<>>] =>
                  def = [state |-> "resolved", args |-> <<204, Null>>]

\* C3's case: a load event with status 500 and body {"error":"x"} has settled
\* the request
C3_Witness ==
    /\ firstEvent = "load"
    /\ response = [status |-> 500, text |-> T_ErrorX]
    /\ def.state = "rejected"

\* C4: whatever terminal event settles a request whose status is 1223, the
\* status handed to the callbacks is 204.
C4_Always204 ==
    (def.state # "pending" /\ response.status = 1223) => def.args[1] = 204

\* C5: sendForm on a form that needs no multipart uses the upper-cased value
\* of the _method control as the method when there is such a control, else
\* the upper-cased declared method; with _method=DELETE and declared method
\* post it returns a Deferred for a DELETE request with no entity to
\* action + '?' + the pairs string.
C5_MethodShim ==
    (call.op = "sendForm" /\ ~NeedsMultipart(call.form)) =>
        /\ EffectiveMethod(call.form) \in {S_POST, S_PUT, S_DELETE, S_GET} =>
              (ret = "Deferred" /\ req.method = EffectiveMethod(call.form))
        /\ ( /\ HasControl(call.form, S_method)
             /\ ControlValue(call.form, S_method) = S_DELETE
             /\ call.form.method = <<"p", "o", "s", "t">> ) =>
              /\ ret = "Deferred"
              /\ req.method = S_DELETE
              /\ req.body = Undefined
              /\ req.path = call.form.action \o <<"?">> \o PairsString(call.form)

\* C6: the request sendForm dispatches with method POST or PUT for a form
\* that needs no multipart has content-type application/x-www-form-urlencoded
\* and, as entity, the form's pairs in document order joined by '&'.
C6_PairsJoined ==
    ( /\ call.op = "sendForm"
      /\ ~NeedsMultipart(call.form)
      /\ ret = "Deferred"
      /\ req.method \in {S_POST, S_PUT} ) =>
        /\ req.headers = <<AcceptCall, <<S_ContentType, S_UrlEncoded>> >>
        /\ req.body = (IF PairsString(call.form) = <<>> THEN Undefined
                       ELSE Str(PairsString(call.form)))

\* C7: canSendForm returns true when FormData is defined; when it is not,
\* false for a form that declares multipart or holds a file control and true
\* for any other form.
C7_Boolean ==
    call.op = "canSendForm" =>
        ret = (IF formDataDefined THEN "true"
               ELSE IF NeedsMultipart(call.form) THEN "false"
               ELSE "true")

\* C8: where FormData is defined, sendForm on a form that declares multipart
\* or holds a file control dispatches one multipart/form-data request built
\* from the form, with method POST, or the upper-cased value of the _method
\* control when there is one.
C8_Multipart ==
    (call.op = "sendForm" /\ NeedsMultipart(call.form) /\ formDataDefined) =>
        /\ ret = "Deferred"
        /\ req.sent
        /\ req.method = (IF HasControl(call.form, S_method)
                         THEN ToUpperCase(ControlValue(call.form, S_method))
                         ELSE S_POST)
        /\ req.path = call.form.action
        /\ req.headers = <<AcceptCall, <<S_ContentType, S_Multipart>> >>
        /\ req.body = NewFormData(call.form)

\* C9: sendForm on a form that needs no multipart and whose effective method
\* is none of POST, PUT, DELETE, GET fails with an InvalidMethod error and
\* dispatches nothing.
C9_InvalidMethod ==
    ( /\ call.op = "sendForm"
      /\ ~NeedsMultipart(call.form)
      /\ EffectiveMethod(call.form) \notin {S_POST, S_PUT, S_DELETE, S_GET} ) =>
        (ret = "InvalidMethod" /\ ~req.opened)

\* C10: putJSON and postJSON dispatch a PUT and a POST to the path as given,
\* with Accept: application/json, then the caller's headers; with a non-null
\* object as data the entity is its JSON text and Content-Type:
\* application/json is set after them; with any other data there is no entity
\* and no Content-Type is set.
C10_JSONEntity ==
    call.op \in {"putJSON", "postJSON"} =>
        /\ ret = "Deferred"
        /\ req.sent
        /\ req.method = (IF call.op = "putJSON" THEN S_PUT ELSE S_POST)
        /\ req.path = call.path
        /\ IsDataObject(call.data) =>
              /\ req.body = Str(JSONStringify(call.data))
              /\ req.headers = <<AcceptCall>> \o CallerHeaderCalls(call.headers)
                                  \o << <<S_ContentType, S_ApplicationJson>> >>
        /\ ~IsDataObject(call.data) =>
              /\ req.body = Undefined
              /\ req.headers = <<AcceptCall>> \o CallerHeaderCalls(call.headers)
        /\ call.data = V_NameA => req.body = Str(T_NameA)
        /\ (call.data = Null /\ call.headers = Undefined) => req.headers = <<AcceptCall>>

\* C10's case: postJSON('/items', {name: 'a'}) has dispatched its request
C10_Witness ==
    /\ call.op = "postJSON"
    /\ call.path = <<"/", "i", "t", "e", "m", "s">>
    /\ call.data = V_NameA
    /\ req.sent
    /\ req.body.t = "string"

====
